---- MODULE Spec2Model ----
(***************************************************************************)
(* A model of the StGit stack binding (src/src/stack/mod.rs) and of the    *)
(* `stg commit` and `stg refresh` commands (src/src/cmd/commit.rs,         *)
(* src/src/cmd/refresh.rs) over an abstract git repository.                *)
(*                                                                         *)
(* A commit id is the commit's content: the sequence of (tree, message)    *)
(* entries from the root commit to the commit itself, so that the first    *)
(* parent is the sequence without its last entry and two commits are equal *)
(* exactly when their histories are.  A tree is a function from paths to   *)
(* contents, content 0 standing for an absent path.  A stack-state commit  *)
(* is a commit too: its entry holds the encoded stack state, its parent is *)
(* the previous stack-state commit.                                        *)
(***************************************************************************)
EXTENDS Naturals, Sequences, FiniteSets, TLC

VARIABLES
    refs,         \* reference name -> target (branch tips, stack metadata refs)
    HEAD,         \* the reference HEAD points at, or "DETACHED"
    state_store,  \* the stack-state commits written to the object store
    index,        \* the default index: path -> content
    worktree,     \* the working tree: path -> content
    conflicts,    \* the paths with a conflict entry in the index
    repo_state,   \* git2::RepositoryState of the repository
    edits,        \* number of changes the user has made by hand
    op,           \* the last operation run
    arg,          \* its arguments
    result,       \* what it returned: "Ok" or the name of the error
    out,          \* what else it reported
    pre,          \* the repository as it was when the operation started
    procs         \* the invocations advancing the stack step by step

vars == <<refs, HEAD, state_store, index, worktree, conflicts, repo_state,
          edits, op, arg, result, out, pre, procs>>

----------------------------------------------------------------------------
(* Bounds of the model *)

\* file contents are 1..MaxContent; 0 is "no such file"
MaxContent == 2
\* length of the chain of stack-state commits behind a metadata reference
MaxStates == 3
\* edits made by hand (git add, git commit, an editor) in one behaviour
MaxEdits == 1

----------------------------------------------------------------------------
(* The abstract repository *)

Paths == {"f", "g"}
Content == 0..MaxContent
Branches == {"master", "dev"}
PatchNames == {"a", "b", "c"}

\* the id no commit has
NoOid == <<>>

\* Option<T>: None, or Some(x)
None == <<>>
Some(x) == <<x>>

commit_ex(message, tree, parent_id) ==
    Append(parent_id, [tree |-> tree, msg |-> message])

parent(commit_id) == SubSeq(commit_id, 1, Len(commit_id) - 1)

tree_id(commit_id) == commit_id[Len(commit_id)].tree

WithPath(tree, path, content) == [tree EXCEPT ![path] = content]

branch_refname(branch_name) == "refs/heads/" \o branch_name

state_refname_from_branch_name(branch_shorthand) ==
    "refs/stacks/" \o branch_shorthand

RefNames ==
    {branch_refname(b) : b \in Branches}
        \cup {state_refname_from_branch_name(b) : b \in Branches}

\* repo.find_reference(name).is_ok()
find_reference_ok(r, refname) == refname \in DOMAIN r /\ r[refname] # NoOid

\* repo.head()?.peel_to_commit()?.id(); a detached HEAD is kept under "HEAD"
repo_head(r, H) == IF H = "DETACHED" THEN r["HEAD"] ELSE r[H]

----------------------------------------------------------------------------
(* StackState: the snapshot a stack-state commit encodes *)

NoPatches == [pn \in {} |-> NoOid]

StackState_new(head) ==
    [head |-> head, prev |-> None, applied |-> <<>>, unapplied |-> <<>>,
     hidden |-> <<>>, patches |-> NoPatches]

advance_head(state, new_head, prev_state) ==
    [state EXCEPT !.head = new_head, !.prev = Some(prev_state)]

\* the previous stack-state commit, or NoOid when the state has none
prev_id(state) == IF state.prev = None THEN NoOid ELSE state.prev[1]

\* the stack-state commit of a state: its tree encodes the snapshot, its
\* first parent is the previous stack-state commit
state_commit_id(state, message) ==
    commit_ex(message,
              [head |-> state.head, applied |-> state.applied,
               unapplied |-> state.unapplied, hidden |-> state.hidden,
               patches |-> state.patches],
              prev_id(state))

\* StackState::commit(repo, update_ref, message): write the commit and, when
\* a reference is named, point it at the commit
state_commit(R, state, update_ref, message) ==
    LET oid == state_commit_id(state, message)
        stored == [R EXCEPT !.state_store = @ \cup {oid}]
    IN  [oid |-> oid,
         repo |-> IF update_ref = None THEN stored
                  ELSE [stored EXCEPT !.refs[update_ref[1]] = oid]]

\* StackState::from_tree on the tree of a stack-state commit
from_tree(state_oid) ==
    LET t == tree_id(state_oid)
    IN  [head |-> t.head,
         prev |-> IF parent(state_oid) = NoOid THEN None
                  ELSE Some(parent(state_oid)),
         applied |-> t.applied, unapplied |-> t.unapplied,
         hidden |-> t.hidden, patches |-> t.patches]

Range(seq) == {seq[i] : i \in DOMAIN seq}

all_patches(state) ==
    Range(state.applied) \cup Range(state.unapplied) \cup Range(state.hidden)

----------------------------------------------------------------------------
(* Stack: a stack bound to a branch (src/src/stack/mod.rs) *)

\* names git2 rejects as a reference name
InvalidSpecs == {"bad..name"}

get_branch(R, branch_name) ==
    IF branch_name # None
    THEN IF branch_name[1] \in InvalidSpecs
         THEN [err |-> "InvalidBranchName", branch |-> ""]
         ELSE IF find_reference_ok(R.refs, branch_refname(branch_name[1]))
              THEN [err |-> "Ok", branch |-> branch_name[1]]
              ELSE [err |-> "BranchNotFound", branch |-> ""]
    ELSE IF R.HEAD = "DETACHED"
         THEN [err |-> "HeadDetached", branch |-> ""]
         ELSE IF \E b \in Branches : R.HEAD = branch_refname(b)
              THEN [err |-> "Ok",
                    branch |-> CHOOSE b \in Branches : R.HEAD = branch_refname(b)]
              ELSE [err |-> "HeadNotBranch", branch |-> ""]

NoStack ==
    [branch_name |-> "", branch_head |-> NoOid, state_ref |-> NoOid,
     state |-> StackState_new(NoOid)]

\* the Stack value: the branch and the metadata reference as they were looked
\* up, and the state read or written
MakeStack(R, branch_name, state) ==
    [branch_name |-> branch_name,
     branch_head |-> R.refs[branch_refname(branch_name)],
     state_ref |-> R.refs[state_refname_from_branch_name(branch_name)],
     state |-> state]

\* initialize without the test for an existing metadata reference
initialize_unchecked(R, branch_name) ==
    LET b == get_branch(R, branch_name)
        state_refname == state_refname_from_branch_name(b.branch)
        state == StackState_new(repo_head(R.refs, R.HEAD))
        written == state_commit(R, state, Some(state_refname), "initialize")
    IN  IF b.err # "Ok"
        THEN [err |-> b.err, repo |-> R, stack |-> NoStack]
        ELSE [err |-> "Ok", repo |-> written.repo,
              stack |-> MakeStack(written.repo, b.branch, state)]

initialize(R, branch_name) ==
    LET b == get_branch(R, branch_name)
        state_refname == state_refname_from_branch_name(b.branch)
        state == StackState_new(repo_head(R.refs, R.HEAD))
        written == state_commit(R, state, Some(state_refname), "initialize")
    IN  IF b.err # "Ok"
        THEN [err |-> b.err, repo |-> R, stack |-> NoStack]
        ELSE IF find_reference_ok(R.refs, state_refname)
             THEN [err |-> "StackAlreadyInitialized", repo |-> R, stack |-> NoStack]
             ELSE [err |-> "Ok", repo |-> written.repo,
                   stack |-> MakeStack(written.repo, b.branch, state)]

from_branch(R, branch_name) ==
    LET b == get_branch(R, branch_name)
        stack_refname == state_refname_from_branch_name(b.branch)
    IN  IF b.err # "Ok"
        THEN [err |-> b.err, stack |-> NoStack]
        ELSE IF ~find_reference_ok(R.refs, stack_refname)
             THEN [err |-> "StackNotInitialized", stack |-> NoStack]
             ELSE [err |-> "Ok",
                   stack |-> MakeStack(R, b.branch, from_tree(R.refs[stack_refname]))]

head_commit(stack) == stack.branch_head

is_head_top(stack) == stack.state.head = head_commit(stack)

check_head_top_mismatch(stack) ==
    IF is_head_top(stack) THEN "StackTopHeadMismatch" ELSE "Ok"

RepositoryStates ==
    {"Clean", "Merge", "Revert", "RevertSequence", "CherryPick",
     "CherryPickSequence", "Bisect", "Rebase", "RebaseInteractive",
     "RebaseMerge", "ApplyMailbox", "ApplyMailboxOrRebase"}

repo_state_to_str(state) ==
    CASE state = "Clean" -> "clean"
      [] state = "Merge" -> "merge"
      [] state \in {"Revert", "RevertSequence"} -> "revert"
      [] state \in {"CherryPick", "CherryPickSequence"} -> "cherry-pick"
      [] state = "Bisect" -> "bisect"
      [] state = "Rebase" -> "rebase"
      [] state = "RebaseInteractive" -> "interactive rebase"
      [] state = "RebaseMerge" -> "rebase merge"
      [] state = "ApplyMailbox" -> "apply mailbox"
      [] state = "ApplyMailboxOrRebase" -> "rebase or apply mailbox"

\* check_repository_state without its arm for a merge
check_repository_state_no_merge_arm(R, conflicts_okay) ==
    CASE R.repo_state = "Clean" -> [err |-> "Ok", carried |-> ""]
      [] OTHER -> [err |-> "ActiveRepositoryState",
                   carried |-> repo_state_to_str(R.repo_state)]

\* the error and, for ActiveRepositoryState, the string it carries
check_repository_state(R, conflicts_okay) ==
    CASE R.repo_state = "Clean" -> [err |-> "Ok", carried |-> ""]
      [] R.repo_state = "Merge" ->
            IF conflicts_okay THEN [err |-> "Ok", carried |-> ""]
            ELSE [err |-> "OutstandingConflicts", carried |-> ""]
      [] OTHER -> [err |-> "ActiveRepositoryState",
                   carried |-> repo_state_to_str(R.repo_state)]

\* git2::Index::is_empty: the index holds no entry at all
index_is_empty(R) == \A p \in Paths : R.index[p] = 0 /\ p \notin R.conflicts

check_index_clean(R) == IF index_is_empty(R) THEN "Ok" ELSE "DirtyIndex"

\* repo.statuses() showing the index: the staged changes against HEAD's tree
index_status(R) ==
    {p \in Paths : p \in R.conflicts
                   \/ R.index[p] # tree_id(repo_head(R.refs, R.HEAD))[p]}

\* repo.statuses() showing the workdir: the unstaged changes against the
\* index; StatusOptions::new() leaves untracked files out
workdir_status(R) ==
    {p \in Paths : \/ p \in R.conflicts
                   \/ R.index[p] # 0 /\ R.worktree[p] # R.index[p]}

check_worktree_clean(R) ==
    IF workdir_status(R) = {} THEN "Ok" ELSE "DirtyWorktree"

\* the reference moved whatever it points at
reference_matching_unconditional(R, name, id, current_id) ==
    [err |-> "Ok", repo |-> [R EXCEPT !.refs[name] = id]]

\* repo.reference_matching(name, id, force, current_id, ...): moves the
\* reference only if it still points at current_id
reference_matching(R, name, id, current_id) ==
    IF R.refs[name] = current_id
    THEN [err |-> "Ok", repo |-> [R EXCEPT !.refs[name] = id]]
    ELSE [err |-> "Git", repo |-> R]

\* advance_state writing the state commit the way initialize does, with the
\* reference named
advance_state_naming_ref(R, stack, new_head, prev_state, message, write_ok) ==
    LET state == advance_head(stack.state, new_head, prev_state)
        written == state_commit(
                       R, state,
                       Some(state_refname_from_branch_name(stack.branch_name)),
                       message)
        moved == reference_matching(
                     written.repo,
                     state_refname_from_branch_name(stack.branch_name),
                     written.oid, prev_state)
    IN  IF ~write_ok
        THEN [err |-> "Git", repo |-> R, stack |-> stack]
        ELSE IF moved.err # "Ok"
             THEN [err |-> moved.err, repo |-> moved.repo, stack |-> stack]
             ELSE [err |-> "Ok", repo |-> moved.repo,
                   stack |-> [stack EXCEPT !.state_ref = written.oid,
                                           !.state = state]]

\* write_ok: whether the object store accepts the new stack-state commit
advance_state(R, stack, new_head, prev_state, message, write_ok) ==
    LET state == advance_head(stack.state, new_head, prev_state)
        written == state_commit(R, state, None, message)
        moved == reference_matching(
                     written.repo,
                     state_refname_from_branch_name(stack.branch_name),
                     written.oid, prev_state)
    IN  IF ~write_ok
        THEN [err |-> "Git", repo |-> R, stack |-> stack]
        ELSE IF moved.err # "Ok"
             THEN [err |-> moved.err, repo |-> moved.repo, stack |-> stack]
             ELSE [err |-> "Ok", repo |-> moved.repo,
                   stack |-> [stack EXCEPT !.state_ref = written.oid,
                                           !.state = state]]

----------------------------------------------------------------------------
(* The transaction engine: setup_transaction .. transact .. execute *)

Last(seq) == seq[Len(seq)]

\* the position of a name in a sequence, 0 when it is not there
Position(seq, pn) ==
    IF \E i \in DOMAIN seq : seq[i] = pn
    THEN CHOOSE i \in DOMAIN seq : seq[i] = pn /\ \A j \in 1..(i - 1) : seq[j] # pn
    ELSE 0

Without(seq, names) == SelectSeq(seq, LAMBDA pn : pn \notin names)

Restrict(patches, names) == [pn \in names |-> patches[pn]]

\* the commit below the bottom applied patch
stack_base(state) ==
    IF state.applied = <<>> THEN state.head
    ELSE parent(state.patches[state.applied[1]])

setup_transaction(stack, use_index_and_worktree, allow_conflicts_if_same_top) ==
    [stack |-> stack,
     applied |-> stack.state.applied, unapplied |-> stack.state.unapplied,
     hidden |-> stack.state.hidden, patches |-> stack.state.patches,
     base |-> stack_base(stack.state),
     use_index_and_worktree |-> use_index_and_worktree,
     allow_conflicts_if_same_top |-> allow_conflicts_if_same_top,
     halted |-> FALSE, conflict_paths |-> {}]

trans_top(trans) ==
    IF trans.applied = <<>> THEN trans.base ELSE trans.patches[Last(trans.applied)]

\* the paths a three-way merge cannot settle
merge_conflicts(base, ours, theirs) ==
    {p \in Paths : ours[p] # base[p] /\ theirs[p] # base[p] /\ ours[p] # theirs[p]}

\* the merged tree where the merge settles every path
merge_trees(base, ours, theirs) ==
    [p \in Paths |-> IF ours[p] = base[p] THEN theirs[p] ELSE ours[p]]

\* push one patch: merge it onto the current top and commit the result with
\* the patch's message; a conflict leaves the patch where it was and halts
push_patch(trans, pn) ==
    LET patch_commit == trans.patches[pn]
        base == tree_id(parent(patch_commit))
        ours == tree_id(trans_top(trans))
        theirs == tree_id(patch_commit)
        bad == merge_conflicts(base, ours, theirs)
        pushed == commit_ex(Last(patch_commit).msg,
                            merge_trees(base, ours, theirs), trans_top(trans))
    IN  IF trans.halted THEN trans
        ELSE IF bad # {}
             THEN [trans EXCEPT !.halted = TRUE, !.conflict_paths = bad]
             ELSE [trans EXCEPT
                      !.applied = Append(@, pn),
                      !.unapplied = Without(@, {pn}),
                      !.hidden = Without(@, {pn}),
                      !.patches = [@ EXCEPT ![pn] = pushed]]

RECURSIVE push_patches(_, _)
push_patches(trans, names) ==
    IF names = <<>> THEN trans
    ELSE push_patches(push_patch(trans, names[1]), Tail(names))

\* the applied patches from the lowest one named upwards
popped_by(trans, names) ==
    LET hits == {i \in DOMAIN trans.applied : trans.applied[i] \in names}
    IN  IF hits = {} THEN <<>>
        ELSE SubSeq(trans.applied,
                    CHOOSE i \in hits : \A j \in hits : i <= j,
                    Len(trans.applied))

\* pop_patches(predicate), the predicate given as the set of names it accepts
pop_patches(trans, names) ==
    LET popped == popped_by(trans, names)
    IN  [trans EXCEPT
            !.applied = SubSeq(@, 1, Len(@) - Len(popped)),
            !.unapplied = popped \o @]

\* what pop_patches returns: the patches popped that were not asked for
popped_extra(trans, names) == Without(popped_by(trans, names), names)

new_applied(trans, pn, commit_id) ==
    [trans EXCEPT !.applied = Append(@, pn),
                  !.patches = [q \in DOMAIN @ \cup {pn} |->
                                  IF q = pn THEN commit_id ELSE @[q]]]

\* delete_patches(predicate): the patches above a deleted applied patch are
\* popped and pushed again
delete_patches(trans, names) ==
    LET above == popped_extra(trans, names)
        popped == pop_patches(trans, names)
        deleted == [popped EXCEPT
                       !.unapplied = Without(@, names \cup Range(above)),
                       !.hidden = Without(@, names),
                       !.patches = Restrict(@, DOMAIN @ \ names)]
        kept == [deleted EXCEPT !.unapplied = above \o @]
    IN  push_patches(kept, above)

\* update_patch(name, commit): the applied patches above it are re-based
update_patch(trans, pn, commit_id) ==
    LET pos == Position(trans.applied, pn)
        above == IF pos = 0 THEN <<>>
                 ELSE SubSeq(trans.applied, pos + 1, Len(trans.applied))
        popped == IF above = <<>> THEN trans
                  ELSE pop_patches(trans, Range(above))
    IN  push_patches([popped EXCEPT !.patches[pn] = commit_id], above)

\* the length of the longest common prefix of two sequences
RECURSIVE CommonPrefix(_, _)
CommonPrefix(s, t) ==
    IF s = <<>> \/ t = <<>> \/ s[1] # t[1] THEN 0
    ELSE 1 + CommonPrefix(Tail(s), Tail(t))

\* commit_patches(list): bring the patches to the bottom of applied in the
\* order given, move the stack base past them, push back what was popped
commit_patches(trans, to_commit) ==
    LET prefix_len == CommonPrefix(trans.applied, to_commit)
        rest == SubSeq(to_commit, prefix_len + 1, Len(to_commit))
        above == SubSeq(trans.applied, prefix_len + 1, Len(trans.applied))
        to_push == Without(above, Range(rest))
        popped == IF above = <<>> THEN trans
                  ELSE pop_patches(trans, Range(above))
        arranged == push_patches(popped, rest)
        committed ==
            [arranged EXCEPT
                !.base = arranged.patches[Last(to_commit)],
                !.applied = SubSeq(@, Len(to_commit) + 1, Len(@)),
                !.patches = Restrict(@, DOMAIN @ \ Range(to_commit))]
    IN  IF arranged.halted THEN arranged
        ELSE push_patches(committed, to_push)

\* the state a transaction has staged
staged_state(trans) ==
    [trans.stack.state EXCEPT
        !.applied = trans.applied, !.unapplied = trans.unapplied,
        !.hidden = trans.hidden, !.patches = trans.patches]

\* the paths a checkout from one tree to another would overwrite although
\* the index or the worktree holds a change to them
checkout_blocked(R, old_tree, new_tree) ==
    {p \in Paths : /\ old_tree[p] # new_tree[p]
                   /\ \/ R.index[p] # old_tree[p]
                      \/ R.worktree[p] # old_tree[p]
                      \/ p \in R.conflicts}

checkout(R, old_tree, new_tree) ==
    [R EXCEPT
        !.index = [p \in Paths |->
                      IF old_tree[p] # new_tree[p] THEN new_tree[p] ELSE @[p]],
        !.worktree = [p \in Paths |->
                         IF old_tree[p] # new_tree[p] THEN new_tree[p] ELSE @[p]]]

\* execute(reflog_msg): nothing to do when nothing was staged; otherwise the
\* new state commit, the metadata reference, then the branch reference
execute(R, trans, reflog_msg) ==
    LET stack == trans.stack
        new_head == trans_top(trans)
        old_tree == tree_id(stack.branch_head)
        new_tree == tree_id(new_head)
        same_top ==
            /\ trans.applied # <<>>
            /\ stack.state.applied # <<>>
            /\ Last(trans.applied) = Last(stack.state.applied)
        moves == trans.use_index_and_worktree /\ new_head # stack.branch_head
        staged == [stack EXCEPT !.state = staged_state(trans)]
        advanced == advance_state(R, staged, new_head, stack.state_ref,
                                  reflog_msg, TRUE)
        branched == IF new_head = stack.branch_head
                    THEN [err |-> "Ok", repo |-> advanced.repo]
                    ELSE reference_matching(advanced.repo,
                                            branch_refname(stack.branch_name),
                                            new_head, stack.branch_head)
        checked == IF moves THEN checkout(branched.repo, old_tree, new_tree)
                   ELSE branched.repo
        final == [checked EXCEPT !.conflicts = @ \cup trans.conflict_paths]
    IN  IF /\ ~trans.halted
           /\ staged_state(trans) = stack.state
           /\ new_head = stack.state.head
        THEN [err |-> "Ok", repo |-> R, stack |-> stack]
        ELSE IF trans.halted /\ ~(trans.allow_conflicts_if_same_top /\ same_top)
        THEN [err |-> "Transaction", repo |-> R, stack |-> stack]
        ELSE IF moves /\ checkout_blocked(R, old_tree, new_tree) # {}
        THEN [err |-> "Transaction", repo |-> R, stack |-> stack]
        ELSE IF advanced.err # "Ok"
        THEN [err |-> "Transaction", repo |-> advanced.repo, stack |-> stack]
        ELSE IF branched.err # "Ok"
        THEN [err |-> "Transaction", repo |-> branched.repo, stack |-> stack]
        ELSE [err |-> "Ok", repo |-> final,
              stack |-> [advanced.stack EXCEPT !.branch_head = new_head]]

----------------------------------------------------------------------------
(* stg commit (src/src/cmd/commit.rs) *)

\* clap: patchranges conflicts with all and number, number conflicts with all
commit_args_ok(matches) ==
    /\ ~(matches.patchranges # None /\ (matches.all \/ matches.number # None))
    /\ ~(matches.number # None /\ matches.all)

applied_and_unapplied(stack) == stack.state.applied \o stack.state.unapplied

\* patchrange::parse with Allow::VisibleWithAppliedBoundary: the names must
\* be patches of the stack that are not hidden
patchrange_parse(stack, patchranges) ==
    IF Range(patchranges) \subseteq Range(applied_and_unapplied(stack))
    THEN [err |-> "Ok", patches |-> patchranges]
    ELSE [err |-> "PatchRange", patches |-> <<>>]

\* insert a name into a sequence sorted by position in `order`
RECURSIVE InsertByPosition(_, _, _)
InsertByPosition(sorted, pn, order) ==
    IF sorted = <<>> THEN <<pn>>
    ELSE IF Position(order, pn) < Position(order, sorted[1])
         THEN <<pn>> \o sorted
         ELSE <<sorted[1]>> \o InsertByPosition(Tail(sorted), pn, order)

\* the requested patches left in the order of the command line
sort_by_position_skipped(requested, order) == requested

\* requested_patches.sort_unstable_by_key(position in applied_and_unapplied)
RECURSIVE sort_by_position(_, _)
sort_by_position(requested, order) ==
    IF requested = <<>> THEN <<>>
    ELSE InsertByPosition(sort_by_position(Tail(requested), order),
                          requested[1], order)

\* the patch list of run: done is the early `return Ok(())` of -n 0
\* the selection with `-n 0` selecting no patch instead of ending the run
select_patches_zero_selects_nothing(stack, matches) ==
    LET applied == stack.state.applied
        parsed == patchrange_parse(stack, matches.patchranges[1])
        number == matches.number[1]
    IN  IF matches.patchranges # None
        THEN [err |-> parsed.err, done |-> FALSE,
              patches |-> sort_by_position(parsed.patches,
                                           applied_and_unapplied(stack))]
        ELSE IF matches.number # None
        THEN IF number > Len(applied)
             THEN [err |-> "NotEnoughApplied", done |-> FALSE, patches |-> <<>>]
             ELSE [err |-> "Ok", done |-> FALSE,
                   patches |-> SubSeq(applied, 1, number)]
        ELSE IF applied = <<>>
        THEN [err |-> "NoAppliedPatches", done |-> FALSE, patches |-> <<>>]
        ELSE IF matches.all
        THEN [err |-> "Ok", done |-> FALSE, patches |-> applied]
        ELSE [err |-> "Ok", done |-> FALSE, patches |-> <<applied[1]>>]

select_patches(stack, matches) ==
    LET applied == stack.state.applied
        parsed == patchrange_parse(stack, matches.patchranges[1])
        number == matches.number[1]
    IN  IF matches.patchranges # None
        THEN [err |-> parsed.err, done |-> FALSE,
              patches |-> sort_by_position(parsed.patches,
                                           applied_and_unapplied(stack))]
        ELSE IF matches.number # None
        THEN IF number = 0
             THEN [err |-> "Ok", done |-> TRUE, patches |-> <<>>]
             ELSE IF number > Len(applied)
                  THEN [err |-> "NotEnoughApplied", done |-> FALSE, patches |-> <<>>]
                  ELSE [err |-> "Ok", done |-> FALSE,
                        patches |-> SubSeq(applied, 1, number)]
        ELSE IF applied = <<>>
        THEN [err |-> "NoAppliedPatches", done |-> FALSE, patches |-> <<>>]
        ELSE IF matches.all
        THEN [err |-> "Ok", done |-> FALSE, patches |-> applied]
        ELSE [err |-> "Ok", done |-> FALSE, patches |-> <<applied[1]>>]

get_patch_commit(stack, pn) == stack.state.patches[pn]

is_empty_patch(stack, pn) ==
    tree_id(get_patch_commit(stack, pn))
        = tree_id(parent(get_patch_commit(stack, pn)))

empty_patches(stack, patches) ==
    SelectSeq(patches, LAMBDA pn : is_empty_patch(stack, pn))

\* the empty-patch guard of run
empty_guard(stack, matches, patches) ==
    IF matches.allow_empty THEN "Ok"
    ELSE IF Len(empty_patches(stack, patches)) = 1 THEN "EmptyPatch"
    ELSE IF empty_patches(stack, patches) # <<>> THEN "EmptyPatches"
    ELSE "Ok"

commit_transaction(R, stack, patches) ==
    execute(R, commit_patches(setup_transaction(stack, TRUE, TRUE), patches),
            "commit")

commit_run(R, matches) ==
    LET loaded == from_branch(R, None)
        stack == loaded.stack
        selected == select_patches(stack, matches)
        guard == empty_guard(stack, matches, selected.patches)
        executed == commit_transaction(R, stack, selected.patches)
        Fail(e) == [err |-> e, repo |-> R, patches |-> selected.patches]
    IN  IF loaded.err # "Ok"
        THEN [err |-> loaded.err, repo |-> R, patches |-> <<>>]
        ELSE IF selected.err # "Ok" THEN Fail(selected.err)
        ELSE IF selected.done THEN Fail("Ok")
        ELSE IF guard # "Ok" THEN Fail(guard)
        ELSE IF check_head_top_mismatch(stack) # "Ok"
        THEN Fail(check_head_top_mismatch(stack))
        ELSE [err |-> executed.err, repo |-> executed.repo,
              patches |-> selected.patches]

----------------------------------------------------------------------------
(* stg refresh (src/src/cmd/refresh.rs) *)

\* clap with --index conflicting with the paths and --force only
refresh_args_ok_index_with_update(matches) ==
    /\ ~(matches.index /\ (matches.pathspecs # None \/ matches.force))
    /\ ~(matches.submodules /\ matches.update)

\* clap: index conflicts with pathspecs, update, submodules and force;
\* submodules conflicts with update
refresh_args_ok(matches) ==
    /\ ~(matches.index
           /\ (matches.pathspecs # None \/ matches.update
                  \/ matches.submodules \/ matches.force))
    /\ ~(matches.submodules /\ matches.update)

has_patch(stack, pn) == pn \in DOMAIN stack.state.patches

\* repo.statuses() showing index and workdir
status_paths(R) == index_status(R) \cup workdir_status(R)

\* the paths in the diff of a patch's parent tree to its tree
patch_paths(patch_commit) ==
    {p \in Paths : tree_id(patch_commit)[p] # tree_id(parent(patch_commit))[p]}

determine_refresh_paths(R, pathspecs, patch_commit, force) ==
    LET listed == IF pathspecs = None THEN status_paths(R)
                  ELSE status_paths(R) \cap pathspecs[1]
        refresh_paths == IF patch_commit = None THEN listed
                         ELSE listed \cap patch_paths(patch_commit[1])
    IN  IF R.conflicts \cap refresh_paths # {}
        THEN [err |-> "OutstandingConflicts", paths |-> {}]
        ELSE IF ~force /\ index_status(R) # {} /\ workdir_status(R) # {}
        THEN [err |-> "IndexDirty", paths |-> {}]
        ELSE [err |-> "Ok", paths |-> refresh_paths]

\* the paths a list of pathspecs matches: an empty list matches every path
pathspec_match(paths) == IF paths = {} THEN Paths ELSE paths

\* index.add_all(paths): the matched paths are taken from the worktree,
\* new files included
add_all(tree, R, paths) ==
    [p \in Paths |-> IF p \in pathspec_match(paths) THEN R.worktree[p] ELSE tree[p]]

\* index.update_all(paths) and index.write(): the matched entries of the index
\* are brought to the worktree's content, files not in the index are not added
update_all(R, paths) ==
    [R EXCEPT
        !.index = [p \in Paths |->
                      IF p \in pathspec_match(paths)
                            /\ (@[p] # 0 \/ p \in R.conflicts)
                      THEN R.worktree[p] ELSE @[p]],
        !.conflicts = @ \ pathspec_match(paths)]

\* index.write_tree(): an index with conflict entries has no tree
write_tree(R) ==
    IF R.conflicts # {} THEN [err |-> "Git", tree |-> R.index]
    ELSE [err |-> "Ok", tree |-> R.index]

\* the tree of assemble_refresh_tree once the refresh paths are known; no
\* pre-commit hook is installed, run_pre_commit_hook changes nothing
refresh_tree_of(R, stack, matches, is_path_limiting, paths) ==
    LET temp_tree == add_all(tree_id(stack.branch_head), R, paths)
        updated == IF is_path_limiting \/ paths # {} THEN update_all(R, paths)
                   ELSE R
        written == IF is_path_limiting THEN [err |-> "Ok", tree |-> temp_tree]
                   ELSE write_tree(updated)
        reread == write_tree(updated)
    IN  IF written.err # "Ok"
        THEN [err |-> written.err, repo |-> R, tree |-> R.index]
        ELSE IF matches.no_verify
        THEN [err |-> "Ok", repo |-> updated, tree |-> written.tree]
        ELSE [err |-> reread.err, repo |-> updated, tree |-> reread.tree]

refresh_paths_known(R, stack, matches, is_path_limiting, determined) ==
    IF determined.err # "Ok"
    THEN [err |-> determined.err, repo |-> R, tree |-> R.index]
    ELSE refresh_tree_of(R, stack, matches, is_path_limiting, determined.paths)

\* the refresh paths under --index: none, and the assertion that no path
\* limiting is in effect
index_refresh_paths(is_path_limiting) ==
    IF is_path_limiting THEN [err |-> "PanicPathLimiting", paths |-> {}]
    ELSE [err |-> "Ok", paths |-> {}]

\* no submodule is in the trees: use_submodules selects nothing
assemble_refresh_tree(R, stack, matches, limit_to_patchname) ==
    refresh_paths_known(
        R, stack, matches,
        limit_to_patchname # None \/ matches.pathspecs # None,
        IF matches.index
        THEN index_refresh_paths(limit_to_patchname # None
                                    \/ matches.pathspecs # None)
        ELSE determine_refresh_paths(
                 R, matches.pathspecs,
                 IF limit_to_patchname = None THEN None
                 ELSE Some(get_patch_commit(stack, limit_to_patchname[1])),
                 matches.force))

\* PatchName::uniquify: the name, or the name with the first free number
uniquify(name, disallow) ==
    IF name \notin disallow THEN name
    ELSE LET Numbered(i) == name \o "-" \o ToString(i)
             free == {i \in 1..(Cardinality(disallow) + 1) :
                         Numbered(i) \notin disallow}
         IN  Numbered(CHOOSE i \in free : \A j \in free : i <= j)

\* the edit pipeline with nothing to edit: the patch's commit with its
\* message and parent and the tree given
patchedit_edit(trans, pn, override_tree_id) ==
    commit_ex(Last(trans.patches[pn]).msg, override_tree_id,
              parent(trans.patches[pn]))

\* the absorb that leaves the patches it popped unapplied
absorb_arranged_without_repush(arranged, patchname, temp_patchname, to_push) ==
    IF arranged.halted
    THEN [trans |-> arranged, absorb_success |-> FALSE, log_msg |-> "refresh "]
    ELSE [trans |-> update_patch(
                        delete_patches(arranged, {temp_patchname}),
                        patchname,
                        patchedit_edit(arranged, patchname,
                                       tree_id(arranged.patches[temp_patchname]))),
          absorb_success |-> TRUE, log_msg |-> "refresh " \o patchname]

\* the temp patch sits on the target: new commit for the target, temp patch
\* deleted, the patches popped pushed again
absorb_arranged(arranged, patchname, temp_patchname, to_push) ==
    IF arranged.halted
    THEN [trans |-> arranged, absorb_success |-> FALSE, log_msg |-> "refresh "]
    ELSE LET pushed ==
                 push_patches(
                     update_patch(
                         delete_patches(arranged, {temp_patchname}),
                         patchname,
                         patchedit_edit(arranged, patchname,
                                        tree_id(arranged.patches[temp_patchname]))),
                     to_push)
         IN  [trans |-> pushed, absorb_success |-> ~pushed.halted,
              log_msg |-> "refresh " \o patchname]

\* absorb the temp patch into an applied patch
absorb_into_applied(trans, patchname, temp_patchname) ==
    LET to_pop == SubSeq(trans.applied, Position(trans.applied, patchname) + 1,
                         Len(trans.applied))
    IN  absorb_arranged(
            IF Len(to_pop) > 1
            THEN push_patches(pop_patches(trans, Range(to_pop)),
                              <<temp_patchname>>)
            ELSE trans,
            patchname, temp_patchname, SubSeq(to_pop, 1, Len(to_pop) - 1))

\* the temp patch is popped: merge its change into the target's tree
absorb_popped(popped, patchname, temp_patchname, base, ours, theirs) ==
    IF merge_conflicts(base, ours, theirs) = {}
    THEN [trans |-> delete_patches(
                        update_patch(popped, patchname,
                                     patchedit_edit(popped, patchname,
                                                    merge_trees(base, ours, theirs))),
                        {temp_patchname}),
          absorb_success |-> TRUE, log_msg |-> "refresh " \o patchname]
    ELSE [trans |-> popped, absorb_success |-> FALSE, log_msg |-> "refresh "]

\* absorb the temp patch into an unapplied patch
absorb_into_unapplied(trans, patchname, temp_patchname) ==
    absorb_popped(pop_patches(trans, {temp_patchname}), patchname, temp_patchname,
                  tree_id(parent(trans.patches[temp_patchname])),
                  tree_id(trans.patches[patchname]),
                  tree_id(trans.patches[temp_patchname]))

refresh_failed(e, R) == [err |-> e, repo |-> R, absorb_success |-> FALSE]

\* the end of run: the second transaction has been executed
refresh_executed(absorb_success, executed) ==
    IF executed.err # "Ok" THEN refresh_failed(executed.err, executed.repo)
    ELSE [err |-> "Ok", repo |-> executed.repo, absorb_success |-> absorb_success]

refresh_absorbed(R, absorbed) ==
    refresh_executed(absorbed.absorb_success,
                     execute(R, absorbed.trans, absorbed.log_msg))

\* the third assertion of the applied branch: with the temp patch deleted
\* the target is the last applied patch
target_is_top(arranged, patchname, temp_patchname) ==
    arranged.halted
        \/ LET left == delete_patches(arranged, {temp_patchname}).applied
           IN  left # <<>> /\ Last(left) = patchname

\* the assertions of the applied branch, to_pop being the applied patches
\* above the target
applied_assertions(trans, to_pop, patchname, temp_patchname) ==
    /\ Len(to_pop) > 1 => popped_extra(trans, Range(to_pop)) = <<>>
    /\ to_pop # <<>> /\ Last(to_pop) = temp_patchname
    /\ target_is_top(
           IF Len(to_pop) > 1
           THEN push_patches(pop_patches(trans, Range(to_pop)),
                             <<temp_patchname>>)
           ELSE trans,
           patchname, temp_patchname)

\* the assertion of the unapplied branch
unapplied_assertions(trans, temp_patchname) ==
    popped_extra(trans, {temp_patchname}) = <<>>

\* a failed assertion ends run with a panic, nothing of the second
\* transaction executed
refresh_asserted(R, assertions_hold, absorbed) ==
    IF assertions_hold THEN refresh_absorbed(R, absorbed)
    ELSE refresh_failed("PanicAbsorb", R)

\* run taking the applied branch whatever the target
refresh_created_absorbing_as_applied(created, trans, patchname, temp_patchname) ==
    IF created.err # "Ok" THEN refresh_failed(created.err, created.repo)
    ELSE refresh_asserted(
             created.repo,
             applied_assertions(
                 trans,
                 SubSeq(trans.applied, Position(trans.applied, patchname) + 1,
                        Len(trans.applied)),
                 patchname, temp_patchname),
             absorb_into_applied(trans, patchname, temp_patchname))

\* run once the temp patch's transaction has been executed
refresh_created(created, trans, patchname, temp_patchname) ==
    IF created.err # "Ok" THEN refresh_failed(created.err, created.repo)
    ELSE IF Position(trans.applied, patchname) # 0
    THEN refresh_asserted(
             created.repo,
             applied_assertions(
                 trans,
                 SubSeq(trans.applied, Position(trans.applied, patchname) + 1,
                        Len(trans.applied)),
                 patchname, temp_patchname),
             absorb_into_applied(trans, patchname, temp_patchname))
    ELSE refresh_asserted(
             created.repo,
             unapplied_assertions(trans, temp_patchname),
             absorb_into_unapplied(trans, patchname, temp_patchname))

refresh_temp_created(created, patchname, temp_patchname) ==
    refresh_created(created, setup_transaction(created.stack, TRUE, FALSE),
                    patchname, temp_patchname)

\* the temp patch created and absorbed in one transaction: the state with
\* the temp patch on top is staged and never written
refresh_temp_patch_in_one_transaction(stack, patchname, temp_patchname, R, temp_commit_id) ==
    refresh_temp_created(
        [err |-> "Ok", repo |-> R,
         stack |-> [stack EXCEPT
                       !.state = staged_state(
                                     new_applied(
                                         setup_transaction(stack, FALSE, FALSE),
                                         temp_patchname, temp_commit_id))]],
        patchname, temp_patchname)

\* the temp patch's commit is written: the transaction that creates the patch
refresh_temp_patch(stack, patchname, temp_patchname, R, temp_commit_id) ==
    refresh_temp_created(
        execute(R,
                new_applied(setup_transaction(stack, FALSE, FALSE),
                            temp_patchname, temp_commit_id),
                "refresh " \o temp_patchname \o " (create temporary patch)"),
        patchname, temp_patchname)

\* run once the refresh tree is assembled: the temp patch
refresh_assembled(stack, patchname, temp_patchname, assembled) ==
    IF assembled.err # "Ok" THEN refresh_failed(assembled.err, assembled.repo)
    ELSE refresh_temp_patch(
             stack, patchname, temp_patchname, assembled.repo,
             commit_ex("Refresh of " \o patchname, assembled.tree,
                       stack.branch_head))

\* run giving the temp patch the name of the patch it is meant for
refresh_patch_reusing_name(R, stack, matches, patchname) ==
    refresh_assembled(
        stack, patchname, patchname,
        assemble_refresh_tree(R, stack, matches,
                              IF matches.update THEN Some(patchname) ELSE None))

\* run with the temp patch's name checked against the applied patches only
refresh_patch_disallowing_applied(R, stack, matches, patchname) ==
    refresh_assembled(
        stack, patchname, uniquify("refresh-temp", Range(stack.state.applied)),
        assemble_refresh_tree(R, stack, matches,
                              IF matches.update THEN Some(patchname) ELSE None))

\* run once the target patch is known
refresh_patch(R, stack, matches, patchname) ==
    refresh_assembled(
        stack, patchname, uniquify("refresh-temp", all_patches(stack.state)),
        assemble_refresh_tree(R, stack, matches,
                              IF matches.update THEN Some(patchname) ELSE None))

\* run once the stack is loaded
refresh_loaded(R, stack, matches) ==
    IF check_head_top_mismatch(stack) # "Ok"
    THEN refresh_failed("StackTopHeadMismatch", R)
    ELSE IF matches.patch # None
    THEN IF has_patch(stack, matches.patch[1])
         THEN refresh_patch(R, stack, matches, matches.patch[1])
         ELSE refresh_failed("PatchDoesNotExist", R)
    ELSE IF stack.state.applied # <<>>
    THEN refresh_patch(R, stack, matches, Last(stack.state.applied))
    ELSE refresh_failed("NoAppliedPatches", R)

refresh_from_branch(R, matches, loaded) ==
    IF loaded.err # "Ok" THEN refresh_failed(loaded.err, R)
    ELSE refresh_loaded(R, loaded.stack, matches)

refresh_run(R, matches) ==
    IF matches.spill THEN refresh_failed("Spill", R)
    ELSE refresh_from_branch(R, matches, from_branch(R, None))

----------------------------------------------------------------------------
(* The repositories a behaviour starts from *)

Repo ==
    [refs |-> refs, HEAD |-> HEAD, state_store |-> state_store,
     index |-> index, worktree |-> worktree, conflicts |-> conflicts,
     repo_state |-> repo_state]

SetRepo(R) ==
    /\ refs' = R.refs
    /\ HEAD' = R.HEAD
    /\ state_store' = R.state_store
    /\ index' = R.index
    /\ worktree' = R.worktree
    /\ conflicts' = R.conflicts
    /\ repo_state' = R.repo_state

SameRepo ==
    UNCHANGED <<refs, HEAD, state_store, index, worktree, conflicts, repo_state>>

PatchOrder == <<"a", "b", "c">>

BaseTree == [p \in Paths |-> 1]
RootCommit == commit_ex("root", BaseTree, NoOid)
DevCommit == commit_ex("dev", WithPath(BaseTree, "g", 0), RootCommit)

\* what each patch changes: a and c write to f, b writes to g
PatchPath(pn) == IF pn = "b" THEN "g" ELSE "f"
PatchContent(pn) == IF pn = "c" THEN 0 ELSE 2

\* the commit of patch pn on top of parent_id; an empty patch keeps the tree
PatchCommit(pn, parent_id, empty) ==
    commit_ex(pn,
              IF pn \in empty THEN tree_id(parent_id)
              ELSE WithPath(tree_id(parent_id), PatchPath(pn), PatchContent(pn)),
              parent_id)

\* the commits of a sequence of applied patches, bottom first
RECURSIVE AppliedCommits(_, _, _)
AppliedCommits(names, below, empty) ==
    IF names = <<>> THEN <<>>
    ELSE <<PatchCommit(names[1], below, empty)>>
            \o AppliedCommits(Tail(names), PatchCommit(names[1], below, empty), empty)

\* a stack as `stg new`, `stg pop` and `stg hide` leave it: the first
\* n_applied patches applied, the next n_unapplied unapplied, the next
\* n_hidden hidden
InitialState(n_applied, n_unapplied, n_hidden, empty) ==
    LET applied == SubSeq(PatchOrder, 1, n_applied)
        unapplied == SubSeq(PatchOrder, n_applied + 1, n_applied + n_unapplied)
        hidden == SubSeq(PatchOrder, n_applied + n_unapplied + 1,
                         n_applied + n_unapplied + n_hidden)
        commits == AppliedCommits(applied, RootCommit, empty)
        initial == StackState_new(RootCommit)
    IN  [head |-> IF applied = <<>> THEN RootCommit ELSE Last(commits),
         prev |-> Some(state_commit_id(initial, "initialize")),
         applied |-> applied, unapplied |-> unapplied, hidden |-> hidden,
         patches |-> [pn \in Range(applied) \cup Range(unapplied) \cup Range(hidden)
                         |-> IF Position(applied, pn) # 0
                             THEN commits[Position(applied, pn)]
                             ELSE PatchCommit(pn, RootCommit, empty)]]

InitialRefs(master, master_state) ==
    [n \in RefNames \cup {"HEAD"} |->
        CASE n = branch_refname("master") -> master
          [] n = branch_refname("dev") -> DevCommit
          [] n = state_refname_from_branch_name("master") -> master_state
          [] OTHER -> NoOid]

NoArg == [none |-> TRUE]

\* two stg processes may run on the repository at the same time
Invocations == {1, 2}

\* an invocation that has not started
IdleProc ==
    [pc |-> "idle", stack |-> NoStack, new_head |-> NoOid, prev_state |-> NoOid,
     message |-> "", oid |-> NoOid, err |-> "Ok"]

InitCommon ==
    /\ HEAD = branch_refname("master")
    /\ index = tree_id(refs[HEAD])
    /\ worktree = tree_id(refs[HEAD])
    /\ conflicts = {}
    /\ edits = 0
    /\ op = "idle"
    /\ arg = NoArg
    /\ result = "Ok"
    /\ out = NoArg
    /\ pre = Repo
    /\ procs = [i \in Invocations |-> IdleProc]

\* master without a stack
InitBare ==
    /\ refs = InitialRefs(RootCommit, NoOid)
    /\ state_store = {}

\* master with a stack of up to three patches, some of them empty
InitStack ==
    \E n_applied, n_unapplied, n_hidden \in 0..Len(PatchOrder) :
      \E empty \in SUBSET PatchNames :
        LET present == SubSeq(PatchOrder, 1, n_applied + n_unapplied + n_hidden)
            state == InitialState(n_applied, n_unapplied, n_hidden, empty)
            initial == StackState_new(RootCommit)
        IN  /\ n_applied + n_unapplied + n_hidden <= Len(PatchOrder)
            /\ n_applied + n_unapplied + n_hidden > 0
            /\ empty \subseteq Range(present)
            /\ refs = InitialRefs(state.head, state_commit_id(state, "new"))
            /\ state_store = {state_commit_id(initial, "initialize"),
                              state_commit_id(state, "new")}

Init ==
    /\ repo_state = "Clean"
    /\ InitBare \/ InitStack
    /\ InitCommon

----------------------------------------------------------------------------
(* What the user does by hand between commands *)

ByHand(R) ==
    /\ op = "idle"
    /\ edits < MaxEdits
    /\ edits' = edits + 1
    /\ SetRepo(R)
    /\ pre' = R
    /\ UNCHANGED <<op, arg, result, out, procs>>

\* edit a file, perhaps `git add` it, perhaps edit it again
UserEdit ==
    \E p \in Paths, staged \in Content, c \in Content :
        /\ p \notin conflicts
        /\ <<staged, c>> # <<index[p], worktree[p]>>
        /\ ByHand([Repo EXCEPT !.index[p] = staged, !.worktree[p] = c])

\* edit a file and `git commit` it to the checked-out branch
UserGitCommit ==
    \E p \in Paths, c \in Content :
        /\ HEAD # "DETACHED"
        /\ c # worktree[p]
        /\ conflicts = {}
        /\ ByHand([Repo EXCEPT
                      !.worktree[p] = c,
                      !.index[p] = c,
                      !.refs[HEAD] = commit_ex("git", WithPath(index, p, c), @)])

\* `git stash pop` or `git checkout -m` leaves a conflict entry for a path
\* and the conflict markers in the file
UserConflict ==
    \E p \in Paths, c \in Content \ {0} :
        /\ p \notin conflicts
        /\ index[p] # 0
        /\ ByHand([Repo EXCEPT !.conflicts = @ \cup {p}, !.worktree[p] = c])

\* `git checkout <branch>` or `git checkout --detach` in a clean worktree
UserCheckout ==
    \E target \in {branch_refname(b) : b \in Branches} \cup {"DETACHED"} :
        /\ target # HEAD
        /\ conflicts = {}
        /\ index = tree_id(repo_head(refs, HEAD))
        /\ worktree = index
        /\ LET oid == IF target = "DETACHED" THEN repo_head(refs, HEAD)
                      ELSE refs[target]
           IN  ByHand([Repo EXCEPT
                          !.HEAD = target,
                          !.refs["HEAD"] = IF target = "DETACHED" THEN oid ELSE NoOid,
                          !.index = tree_id(oid),
                          !.worktree = tree_id(oid)])

\* `git rm -r .`: every file leaves the index and the worktree
UserGitRm ==
    /\ conflicts = {}
    /\ index # [p \in Paths |-> 0]
    /\ ByHand([Repo EXCEPT !.index = [p \in Paths |-> 0],
                           !.worktree = [p \in Paths |-> 0]])

\* a merge, rebase, cherry-pick, revert, bisect or `git am` is begun or ended
UserRepositoryState ==
    \E mode \in RepositoryStates :
        /\ mode # repo_state
        /\ ByHand([Repo EXCEPT !.repo_state = mode])

----------------------------------------------------------------------------
(* The operations *)

\* an invocation runs from start to end and reports its result
Ran(name, matches, err, report, R) ==
    /\ op = "idle"
    /\ op' = name
    /\ arg' = matches
    /\ result' = err
    /\ out' = report
    /\ pre' = Repo
    /\ SetRepo(R)
    /\ UNCHANGED <<edits, procs>>

\* the chain of stack-state commits behind the references may still grow
MayAdvance == \A b \in Branches :
    Len(refs[state_refname_from_branch_name(b)]) < MaxStates

BranchArgs == {None} \cup {Some(b) : b \in Branches \cup {"nosuch"} \cup InvalidSpecs}

Initialize ==
    \E branch_name \in BranchArgs :
        LET did == initialize(Repo, branch_name)
        IN  Ran("initialize", [branch |-> branch_name], did.err, NoArg, did.repo)

Load ==
    \E branch_name \in BranchArgs :
        LET did == from_branch(Repo, branch_name)
        IN  Ran("load", [branch |-> branch_name], did.err, NoArg, Repo)

\* the stack-state commits an invocation may have seen at the reference
SeenStates(stack) ==
    {SubSeq(stack.state_ref, 1, n) : n \in 1..Len(stack.state_ref)}

AdvanceState ==
    \E write_ok \in BOOLEAN :
        LET loaded == from_branch(Repo, None)
            stack == loaded.stack
        IN  /\ loaded.err = "Ok"
            /\ MayAdvance
            /\ \E prev_state \in SeenStates(stack),
                  new_head \in {stack.state.head, stack.branch_head} :
                  LET did == advance_state(Repo, stack, new_head, prev_state,
                                           "advance", write_ok)
                  IN  Ran("advance_state",
                          [new_head |-> new_head, prev_state |-> prev_state,
                           write_ok |-> write_ok],
                          did.err, NoArg, did.repo)

PatchLists ==
    {<<pn>> : pn \in PatchNames}
        \cup {<<pn, qn>> : pn, qn \in PatchNames}

MaxNumber == Len(PatchOrder) + 1

\* the selections clap accepts, and three it rejects
CommitArgs ==
    LET Args(patchranges, number, all) ==
            [patchranges : patchranges, number : number, all : all,
             allow_empty : BOOLEAN]
    IN  Args({Some(l) : l \in {l \in PatchLists : Len(l) = 1 \/ l[1] # l[2]}},
             {None}, {FALSE})
            \cup Args({None}, {Some(n) : n \in 0..MaxNumber}, {FALSE})
            \cup Args({None}, {None}, BOOLEAN)
            \cup Args({Some(<<"a">>)}, {Some(1)}, {FALSE})
            \cup Args({Some(<<"a">>)}, {None}, {TRUE})
            \cup Args({None}, {Some(1)}, {TRUE})

Commit ==
    \E matches \in CommitArgs :
        /\ MayAdvance
        /\ IF commit_args_ok(matches)
           THEN LET did == commit_run(Repo, matches)
                IN  Ran("commit", matches, did.err, [patches |-> did.patches],
                        did.repo)
           ELSE Ran("commit", matches, "Usage", [patches |-> <<>>], Repo)

\* the invocations of stg refresh: the target, the source of the changes,
\* the path limits; four that clap rejects
RefreshArgs ==
    LET Given(patch, update, from_index, force, pathspecs, no_verify, spill,
              submodules) ==
            [patch : patch, update : update, index : from_index, force : force,
             pathspecs : pathspecs, no_verify : no_verify, spill : spill,
             submodules : submodules]
        Args(patch, update, from_index, force, pathspecs, no_verify, spill) ==
            Given(patch, update, from_index, force, pathspecs, no_verify, spill,
                  {FALSE})
        Top == {None}
    IN  Args({None} \cup {Some(pn) : pn \in PatchNames \cup {"nosuch"}},
             {FALSE}, {FALSE}, {FALSE}, {None}, BOOLEAN, {FALSE})
            \cup Args({None, Some("b")}, {TRUE}, {FALSE}, {FALSE}, {None},
                      BOOLEAN, {FALSE})
            \cup Args(Top, {FALSE}, {TRUE}, {FALSE}, {None}, {FALSE}, {FALSE})
            \cup Args(Top, {FALSE}, {FALSE}, {TRUE}, {None}, {FALSE}, {FALSE})
            \cup Args(Top, {FALSE}, {FALSE}, {FALSE}, {Some({"f"})}, BOOLEAN,
                      {FALSE})
            \cup Args(Top, {FALSE}, {FALSE}, {FALSE}, {None}, {FALSE}, {TRUE})
            \cup Args(Top, {FALSE}, {TRUE}, {TRUE}, {None}, {FALSE}, {FALSE})
            \cup Args(Top, {FALSE}, {TRUE}, {FALSE}, {Some({"f"})}, {FALSE},
                      {FALSE})
            \cup Args(Top, {TRUE}, {TRUE}, {FALSE}, {None}, {FALSE}, {FALSE})
            \cup Given(Top, {FALSE}, BOOLEAN, {FALSE}, {None}, {FALSE}, {FALSE},
                       {TRUE})

Refresh ==
    \E matches \in RefreshArgs :
        /\ MayAdvance
        /\ IF refresh_args_ok(matches)
           THEN LET did == refresh_run(Repo, matches)
                IN  Ran("refresh", matches, did.err,
                        [absorb_success |-> did.absorb_success], did.repo)
           ELSE Ran("refresh", matches, "Usage",
                    [absorb_success |-> FALSE], Repo)

\* the checks a command makes on the stack it has loaded
CheckHeadTopMismatch ==
    LET loaded == from_branch(Repo, None)
    IN  /\ loaded.err = "Ok"
        /\ Ran("check_head_top_mismatch", NoArg,
               check_head_top_mismatch(loaded.stack), NoArg, Repo)

CheckRepositoryState ==
    \E conflicts_okay \in BOOLEAN :
        LET did == check_repository_state(Repo, conflicts_okay)
        IN  Ran("check_repository_state", [conflicts_okay |-> conflicts_okay],
                did.err, [carried |-> did.carried], Repo)

CheckIndexClean ==
    Ran("check_index_clean", NoArg, check_index_clean(Repo), NoArg, Repo)

CheckWorktreeClean ==
    Ran("check_worktree_clean", NoArg, check_worktree_clean(Repo), NoArg, Repo)

\* the invocation's process ends and its report is gone
Exit ==
    /\ op # "idle"
    /\ op' = "idle"
    /\ arg' = NoArg
    /\ result' = "Ok"
    /\ out' = NoArg
    /\ pre' = Repo
    /\ SameRepo
    /\ UNCHANGED <<edits, procs>>

----------------------------------------------------------------------------
(* One state advance step by step, for invocations that run side by side *)

\* a step of invocation i: only the repository and the invocation change
Step(i, R, proc) ==
    /\ SetRepo(R)
    /\ procs' = [procs EXCEPT ![i] = proc]
    /\ UNCHANGED <<edits, op, arg, result, out, pre>>

\* what an invocation stages: its top patch popped, or its first unapplied
\* patch pushed
StagedBy(stack, kind) ==
    LET trans == setup_transaction(stack, FALSE, FALSE)
    IN  IF kind = "pop" THEN pop_patches(trans, {Last(trans.applied)})
        ELSE push_patch(trans, trans.unapplied[1])

\* the invocation loads the stack and stages its change
BeginAdvance(i) ==
    \E kind \in {"pop", "push"} :
        LET loaded == from_branch(Repo, None)
            stack == loaded.stack
            staged == StagedBy(stack, kind)
        IN  /\ procs[i].pc = "idle"
            /\ loaded.err = "Ok"
            /\ MayAdvance
            /\ kind = "pop" => stack.state.applied # <<>>
            /\ kind = "push" => stack.state.unapplied # <<>>
            /\ ~staged.halted
            /\ Step(i, Repo,
                    [pc |-> "loaded",
                     stack |-> [stack EXCEPT !.state = staged_state(staged)],
                     new_head |-> trans_top(staged),
                     prev_state |-> stack.state_ref,
                     message |-> kind, oid |-> NoOid, err |-> "Ok"])

\* advance_state: state.commit(repo, None, message)
WriteState(i) ==
    LET proc == procs[i]
        written == state_commit(
                       Repo,
                       advance_head(proc.stack.state, proc.new_head,
                                    proc.prev_state),
                       None, proc.message)
    IN  /\ proc.pc = "loaded"
        /\ Step(i, written.repo,
                [proc EXCEPT !.pc = "written", !.oid = written.oid])

\* advance_state: repo.reference_matching on the metadata reference; the
\* branch reference is left to move when the new head is not the branch tip
SwapState(i) ==
    LET proc == procs[i]
        moved == reference_matching(
                     Repo, state_refname_from_branch_name(proc.stack.branch_name),
                     proc.oid, proc.prev_state)
    IN  /\ proc.pc = "written"
        /\ Step(i, moved.repo,
                [proc EXCEPT
                    !.pc = IF moved.err = "Ok"
                              /\ proc.new_head # proc.stack.branch_head
                           THEN "swapped" ELSE "done",
                    !.err = moved.err])

\* execute: the branch reference follows the metadata reference
MoveBranch(i) ==
    LET proc == procs[i]
        branched == reference_matching(
                        Repo, branch_refname(proc.stack.branch_name),
                        proc.new_head, proc.stack.branch_head)
    IN  /\ proc.pc = "swapped"
        /\ Step(i, branched.repo,
                [proc EXCEPT
                    !.pc = "done",
                    !.err = IF branched.err = "Ok" THEN "Ok"
                            ELSE "Transaction"])

\* the invocation's process ends
EndAdvance(i) ==
    /\ procs[i].pc = "done"
    /\ Step(i, Repo, IdleProc)

\* the invocations that have moved the metadata reference and not yet the
\* branch reference, both references being as the invocation left them
Advancing ==
    {i \in Invocations :
        /\ procs[i].pc = "swapped"
        /\ refs[state_refname_from_branch_name(procs[i].stack.branch_name)]
              = procs[i].oid
        /\ refs[branch_refname(procs[i].stack.branch_name)]
              = procs[i].stack.branch_head}

\* another invocation loads the stack and checks it while those advance
ReadDuringAdvance ==
    LET loaded == from_branch(Repo, None)
    IN  /\ loaded.err = "Ok"
        /\ Ran("check_head_top_mismatch",
               [advancing |-> Advancing],
               check_head_top_mismatch(loaded.stack), NoArg, Repo)

----------------------------------------------------------------------------
(* The specifications *)

\* the commands on the stacks of Init, with the user working by hand
Next ==
    \/ Exit
    \/ UserEdit
    \/ UserGitCommit
    \/ Commit
    \/ Refresh

Spec == Init /\ [][Next]_vars

\* the stack binding: initialize, load and advance_state on stacks whose
\* patches are not empty
InitBinding ==
    /\ repo_state = "Clean"
    /\ InitBare \/ InitStack
    /\ \A c \in state_store :
          \A pn \in all_patches(from_tree(c)) :
              tree_id(from_tree(c).patches[pn])
                  # tree_id(parent(from_tree(c).patches[pn]))
    /\ InitCommon

NextBinding ==
    \/ Exit
    \/ UserGitCommit
    \/ UserCheckout
    \/ Initialize
    \/ Load
    \/ AdvanceState

SpecBinding == InitBinding /\ [][NextBinding]_vars

\* the checks of the stack binding
NextChecks ==
    \/ Exit
    \/ UserEdit
    \/ UserGitCommit
    \/ UserGitRm
    \/ UserRepositoryState
    \/ CheckHeadTopMismatch
    \/ CheckRepositoryState
    \/ CheckIndexClean
    \/ CheckWorktreeClean

SpecChecks == InitBinding /\ [][NextChecks]_vars

\* stg refresh and stg commit on stacks without empty patches, consistent or
\* with a commit the user made with `git commit` on top of the stack
InitRefresh ==
    /\ repo_state = "Clean"
    /\ \E n_applied, n_unapplied, n_hidden \in 0..Len(PatchOrder) :
        \E made \in {None} \cup {Some(<<p, c>>) : p \in Paths, c \in Content} :
          LET state == InitialState(n_applied, n_unapplied, n_hidden, {})
              initial == StackState_new(RootCommit)
              tip == IF made = None THEN state.head
                     ELSE commit_ex("git",
                                    WithPath(tree_id(state.head),
                                             made[1][1], made[1][2]),
                                    state.head)
          IN  /\ n_applied + n_unapplied + n_hidden <= Len(PatchOrder)
              /\ n_applied + n_unapplied + n_hidden > 0
              /\ made # None => tree_id(tip) # tree_id(state.head)
              /\ refs = InitialRefs(tip, state_commit_id(state, "new"))
              /\ state_store = {state_commit_id(initial, "initialize"),
                                state_commit_id(state, "new")}
    /\ InitCommon

NextRefresh ==
    \/ Exit
    \/ UserEdit
    \/ UserConflict
    \/ Refresh
    \/ Commit

SpecRefresh == InitRefresh /\ [][NextRefresh]_vars

\* the temp patches earlier refreshes left behind when their change did not
\* apply, in the order they were popped
Leftovers ==
    {<<>>, <<"refresh-temp">>, <<"refresh-temp-1">>,
     <<"refresh-temp-1", "refresh-temp">>,
     <<"refresh-temp-2", "refresh-temp-1", "refresh-temp">>}

\* stg refresh on stacks that hold leftover temp patches, unapplied or
\* hidden, the branch tip one `git commit` above the top patch
InitTemp ==
    /\ repo_state = "Clean"
    /\ \E n_applied \in 0..2, left \in Leftovers, hide \in BOOLEAN :
        \E p \in Paths, c \in Content :
          LET applied == SubSeq(PatchOrder, 1, n_applied)
              commits == AppliedCommits(applied, RootCommit, {})
              head == IF applied = <<>> THEN RootCommit ELSE Last(commits)
              initial == StackState_new(RootCommit)
              state ==
                  [head |-> head,
                   prev |-> Some(state_commit_id(initial, "initialize")),
                   applied |-> applied,
                   unapplied |-> IF hide THEN <<>> ELSE left,
                   hidden |-> IF hide THEN left ELSE <<>>,
                   patches |-> [pn \in Range(applied) \cup Range(left) |->
                                   IF Position(applied, pn) # 0
                                   THEN commits[Position(applied, pn)]
                                   ELSE PatchCommit(pn, RootCommit, {})]]
              tip == commit_ex("git", WithPath(tree_id(head), p, c), head)
          IN  /\ n_applied + Len(left) > 0
              /\ hide => left # <<>>
              /\ tree_id(tip) # tree_id(head)
              /\ refs = InitialRefs(tip, state_commit_id(state, "new"))
              /\ state_store = {state_commit_id(initial, "initialize"),
                                state_commit_id(state, "new")}
    /\ InitCommon

NextTemp ==
    \/ Exit
    \/ UserEdit
    \/ Refresh

SpecTemp == InitTemp /\ [][NextTemp]_vars

\* two invocations advancing the stack side by side, and a third that loads
\* the stack and checks it
NextConcurrent ==
    \/ Exit
    \/ ReadDuringAdvance
    \/ \E i \in Invocations :
          \/ BeginAdvance(i)
          \/ WriteState(i)
          \/ SwapState(i)
          \/ MoveBranch(i)
          \/ EndAdvance(i)

SpecConcurrent == InitBinding /\ [][NextConcurrent]_vars

----------------------------------------------------------------------------
(* The properties *)

\* the branch a command given no branch name works on
CurrentBranch(R) == get_branch(R, None).branch

BranchTip(R, b) == R.refs[branch_refname(b)]

MetadataRef(R, b) == R.refs[state_refname_from_branch_name(b)]

\* the head recorded in the state the metadata reference of b points at
RecordedHead(R, b) == tree_id(MetadataRef(R, b)).head

\* C1: check_head_top_mismatch returns StackTopHeadMismatch exactly when the
\* branch tip differs from the head recorded in the loaded state, and Ok
\* when the two are equal
C1_MismatchExactlyWhenTipDiffers ==
    op = "check_head_top_mismatch" =>
        LET differ == BranchTip(pre, CurrentBranch(pre))
                          # RecordedHead(pre, CurrentBranch(pre))
        IN  /\ differ => result = "StackTopHeadMismatch"
            /\ ~differ => result = "Ok"

\* the names ActiveRepositoryState may carry for a mode
ModeNames(mode) ==
    CASE mode \in {"Rebase", "RebaseInteractive", "RebaseMerge"} ->
            {"rebase", "interactive rebase", "rebase merge"}
      [] mode \in {"CherryPick", "CherryPickSequence"} -> {"cherry-pick"}
      [] mode = "Bisect" -> {"bisect"}
      [] mode \in {"Revert", "RevertSequence"} -> {"revert"}
      [] mode = "ApplyMailbox" -> {"apply mailbox"}
      [] mode = "ApplyMailboxOrRebase" -> {"rebase or apply mailbox"}
      [] OTHER -> {}

\* C8: check_repository_state is Ok in mode clean, Ok in mode merge when
\* conflicts are okay and OutstandingConflicts when they are not, and in
\* every other mode fails with ActiveRepositoryState carrying the mode's
\* name, whatever conflicts_okay is
C8_RepositoryStateCheck ==
    op = "check_repository_state" =>
        /\ pre.repo_state = "Clean" => result = "Ok"
        /\ pre.repo_state = "Merge" /\ arg.conflicts_okay => result = "Ok"
        /\ pre.repo_state = "Merge" /\ ~arg.conflicts_okay =>
              result = "OutstandingConflicts"
        /\ pre.repo_state \notin {"Clean", "Merge"} =>
              /\ result = "ActiveRepositoryState"
              /\ out.carried \in ModeNames(pre.repo_state)

\* an interactive rebase is refused even when conflicts are okay
C8_Witness ==
    /\ op = "check_repository_state"
    /\ pre.repo_state = "RebaseInteractive"
    /\ arg.conflicts_okay
    /\ result = "ActiveRepositoryState"
    /\ out.carried = "interactive rebase"

\* C9: check_index_clean returns Ok exactly when the index has no staged
\* change against the branch tip's tree and fails with DirtyIndex otherwise
C9_IndexCleanExactlyWhenNothingStaged ==
    op = "check_index_clean" =>
        /\ index_status(pre) = {} => result = "Ok"
        /\ index_status(pre) # {} => result = "DirtyIndex"

\* the state the metadata reference of b points at
StateOf(R, b) == from_tree(MetadataRef(R, b))

\* the patches of a state whose tree is their first parent's tree
EmptyIn(state) ==
    {pn \in DOMAIN state.patches :
        tree_id(state.patches[pn]) = tree_id(parent(state.patches[pn]))}

\* C2: on a consistent stack whose applied patches are not empty,
\* `commit -n N` with 1 <= N <= k succeeds, leaves the patches above the
\* N-th applied in order, forgets the first N, keeps unapplied, hidden and
\* the branch tip
C2_CommitNumberCommitsBottom ==
    (op = "commit" /\ arg.number # None /\ arg.patchranges = None /\ ~arg.all
        /\ MetadataRef(pre, CurrentBranch(pre)) # NoOid) =>
        LET b == CurrentBranch(pre)
            before == StateOf(pre, b)
            after == StateOf(Repo, b)
            N == arg.number[1]
            k == Len(before.applied)
        IN  (/\ BranchTip(pre, b) = before.head
             /\ 1 <= N /\ N <= k
             /\ Range(before.applied) \cap EmptyIn(before) = {}) =>
                /\ result = "Ok"
                /\ after.applied = SubSeq(before.applied, N + 1, k)
                /\ \A i \in 1..N :
                      before.applied[i] \notin
                          all_patches(after) \cup DOMAIN after.patches
                /\ after.unapplied = before.unapplied
                /\ after.hidden = before.hidden
                /\ BranchTip(Repo, b) = BranchTip(pre, b)

\* the command got as far as its head/top check: clap accepted the arguments,
\* the stack loaded, and for commit the selection passed the empty-patch guard
ReachedHeadTopCheck ==
    LET loaded == from_branch(pre, None)
        selected == select_patches(loaded.stack, arg)
    IN  /\ loaded.err = "Ok"
        /\ op = "commit" =>
              /\ commit_args_ok(arg)
              /\ selected.err = "Ok" /\ ~selected.done
              /\ empty_guard(loaded.stack, arg, selected.patches) = "Ok"
        /\ op = "refresh" => refresh_args_ok(arg) /\ ~arg.spill

\* C3: when the branch tip differs from the recorded head, refresh and commit
\* fail with StackTopHeadMismatch, and the references, the index and the
\* patch lists are what they were, with no temporary patch created
C3_MismatchFailsBeforeAnyChange ==
    (/\ op \in {"refresh", "commit"}
     /\ ReachedHeadTopCheck
     /\ BranchTip(pre, CurrentBranch(pre))
            # RecordedHead(pre, CurrentBranch(pre))) =>
        /\ result = "StackTopHeadMismatch"
        /\ refs = pre.refs
        /\ index = pre.index
        /\ StateOf(Repo, CurrentBranch(pre)) = StateOf(pre, CurrentBranch(pre))

\* C4: when advance_state returns an error, the metadata reference points
\* at the commit it pointed at before the call
C4_FailedAdvanceKeepsMetadataRef ==
    (op = "advance_state" /\ result # "Ok") =>
        \A b \in Branches : MetadataRef(Repo, b) = MetadataRef(pre, b)

\* the compare-and-swap failed after the new state commit was written
C4_Witness ==
    /\ op = "advance_state"
    /\ result # "Ok"
    /\ arg.write_ok
    /\ arg.prev_state # MetadataRef(pre, CurrentBranch(pre))
    /\ state_store # pre.state_store

\* C5: when the metadata reference does not point at prev_state, advance_state
\* returns the Transaction error
C5_FailedCasReturnsTransaction ==
    (/\ op = "advance_state"
     /\ arg.write_ok
     /\ arg.prev_state # MetadataRef(pre, CurrentBranch(pre))) =>
        result = "Transaction"

\* the branch initialize or load resolved
ResolvedBranch(R, branch_name) == get_branch(R, branch_name).branch

\* C6: after a successful initialize, the state at the branch's metadata
\* reference has no patches, no prev and the tip of the resolved branch as head
C6_InitializeRecordsBranchTip ==
    (op = "initialize" /\ result = "Ok") =>
        LET b == ResolvedBranch(pre, arg.branch)
            state == StateOf(Repo, b)
        IN  /\ state.applied = <<>>
            /\ state.unapplied = <<>>
            /\ state.hidden = <<>>
            /\ DOMAIN state.patches = {}
            /\ state.prev = None
            /\ state.head = BranchTip(pre, b)

\* C7: for every branch, while its metadata reference does not exist load
\* fails with StackNotInitialized and initialize succeeds; once it exists
\* load succeeds and initialize fails with StackAlreadyInitialized, leaving
\* the metadata reference as it is
C7_ExactlyOneOfInitializeAndLoad ==
    /\ \A b \in Branches :
          LET init == initialize(Repo, Some(b))
              load == from_branch(Repo, Some(b))
          IN  IF MetadataRef(Repo, b) = NoOid
              THEN load.err = "StackNotInitialized" /\ init.err = "Ok"
              ELSE /\ load.err = "Ok"
                   /\ init.err = "StackAlreadyInitialized"
                   /\ init.repo.refs = refs
    /\ (op \in {"initialize", "load"}
            /\ get_branch(pre, arg.branch).err = "Ok") =>
          LET b == ResolvedBranch(pre, arg.branch)
              existed == MetadataRef(pre, b) # NoOid
          IN  /\ op = "initialize" =>
                    /\ result = IF existed THEN "StackAlreadyInitialized" ELSE "Ok"
                    /\ existed => refs = pre.refs
                    /\ MetadataRef(Repo, b) # NoOid
              /\ op = "load" =>
                    result = IF existed THEN "Ok" ELSE "StackNotInitialized"

\* a second initialize was refused while another branch has no stack yet
C7_Witness ==
    /\ op = "initialize"
    /\ result = "StackAlreadyInitialized"
    /\ \E b \in Branches : MetadataRef(Repo, b) = NoOid
    /\ \E b \in Branches : Len(MetadataRef(Repo, b)) > 1

EmptyPatchErrors == {"EmptyPatch", "EmptyPatches"}

\* the selected patches that are empty in the stack the command loaded
SelectedEmpty ==
    Range(out.patches) \cap EmptyIn(StateOf(pre, CurrentBranch(pre)))

\* C10 as stated: without --allow-empty commit fails if and only if a selected
\* patch is empty, and then changes nothing; with --allow-empty the guard
\* rejects nothing
C10_CommitFailsExactlyOnEmptyPatch ==
    (op = "commit" /\ out.patches # <<>>) =>
        /\ ~arg.allow_empty => (result # "Ok" <=> SelectedEmpty # {})
        /\ (~arg.allow_empty /\ SelectedEmpty # {}) =>
              refs = pre.refs /\ state_store = pre.state_store
        /\ arg.allow_empty => result \notin EmptyPatchErrors

\* the guard of C10 on its own: without --allow-empty commit fails at the
\* empty-patch guard if and only if a selected patch is empty, and then changes
\* nothing; with --allow-empty the guard rejects nothing
C10_GuardRejectsExactlyEmptyPatch ==
    (op = "commit" /\ out.patches # <<>>) =>
        /\ ~arg.allow_empty =>
              (result \in EmptyPatchErrors <=> SelectedEmpty # {})
        /\ result \in EmptyPatchErrors => Repo = pre
        /\ arg.allow_empty => result \notin EmptyPatchErrors

\* the stack is consistent: the branch tip is the recorded head
Consistent(R) ==
    BranchTip(R, CurrentBranch(R)) = RecordedHead(R, CurrentBranch(R))

\* commit was given no patch, no -n and no --all
NoSelection == arg.patchranges = None /\ arg.number = None /\ ~arg.all

\* C11: commit without a selection selects exactly the bottommost applied
\* patch, and the empty-patch guard looks at the selected patches only: on
\* applied [a, b] with b empty and a not, `commit` succeeds and commits a,
\* `commit b` fails at the guard unless --allow-empty is given
C11_DefaultIsBottomPatchGuardOnSelection ==
    (op = "commit" /\ MetadataRef(pre, CurrentBranch(pre)) # NoOid) =>
        LET b == CurrentBranch(pre)
            before == StateOf(pre, b)
            after == StateOf(Repo, b)
        IN  /\ (NoSelection /\ before.applied # <<>>) =>
                  out.patches = <<before.applied[1]>>
            /\ (/\ Consistent(pre)
                /\ before.applied = <<"a", "b">>
                /\ EmptyIn(before) \cap {"a", "b"} = {"b"}) =>
                  /\ (NoSelection /\ ~arg.allow_empty) =>
                        /\ result = "Ok"
                        /\ after.applied = <<"b">>
                        /\ "a" \notin DOMAIN after.patches
                  /\ arg.patchranges = Some(<<"b">>) =>
                        IF arg.allow_empty THEN result \notin EmptyPatchErrors
                        ELSE result = "EmptyPatch"

\* a sequence lists its names in the order they have in `order`
InOrderOf(seq, order) ==
    \A i, j \in DOMAIN seq :
        i < j => Position(order, seq[i]) < Position(order, seq[j])

\* commit was given a list of patches that the stack has
ExplicitList ==
    /\ op = "commit"
    /\ commit_args_ok(arg)
    /\ arg.patchranges # None
    /\ from_branch(pre, None).err = "Ok"
    /\ result # "PatchRange"

\* the list handed to commit_patches is the requested patches in stack order
HandedInStackOrder ==
    LET before == StateOf(pre, CurrentBranch(pre))
    IN  /\ Len(out.patches) = Len(arg.patchranges[1])
        /\ Range(out.patches) = Range(arg.patchranges[1])
        /\ InOrderOf(out.patches, before.applied \o before.unapplied)

\* the selected patches are gone, the other applied patches kept their order
SelectedGoneOthersInOrder ==
    LET before == StateOf(pre, CurrentBranch(pre))
        after == StateOf(Repo, CurrentBranch(pre))
    IN  /\ Range(out.patches) \cap all_patches(after) = {}
        /\ Range(out.patches) \cap DOMAIN after.patches = {}
        /\ InOrderOf(Without(after.applied, Range(before.unapplied)),
                     before.applied)

\* the transaction of commit stopped at a push that conflicted
CommitHalted ==
    commit_patches(setup_transaction(from_branch(pre, None).stack, TRUE, TRUE),
                   out.patches).halted

NoDuplicates(seq) == \A i, j \in DOMAIN seq : seq[i] = seq[j] => i = j

\* applied, unapplied and hidden are pairwise disjoint, hold no name twice
\* and together hold exactly the keys of the patches map
WellFormed(state) ==
    /\ NoDuplicates(state.applied \o state.unapplied \o state.hidden)
    /\ all_patches(state) = DOMAIN state.patches

AdvancedBranch ==
    IF op = "initialize" THEN ResolvedBranch(pre, arg.branch)
    ELSE CurrentBranch(pre)

\* C14: after every successful state advance (initialize, advance_state, an
\* executed transaction of refresh or commit) the recorded head is the commit
\* of the last applied patch, or the stack base when nothing is applied, and
\* the branch reference's tip is the recorded head
C14_HeadIsTopAndBranchTip ==
    (/\ op \in {"initialize", "advance_state", "commit", "refresh"}
     /\ result = "Ok"
     /\ MetadataRef(Repo, AdvancedBranch) # MetadataRef(pre, AdvancedBranch)) =>
        LET state == StateOf(Repo, AdvancedBranch)
        IN  /\ state.applied # <<>> =>
                  state.head = state.patches[Last(state.applied)]
            /\ state.applied = <<>> => state.head = stack_base(state)
            /\ BranchTip(Repo, AdvancedBranch) = state.head

\* refresh was run with arguments clap accepts and found a stack
RefreshOnStack ==
    /\ op = "refresh"
    /\ refresh_args_ok(arg)
    /\ ~arg.spill
    /\ from_branch(pre, None).err = "Ok"

\* the messages of the temp commits in the stack states the command wrote
TempMessages ==
    {Last(from_tree(c).patches["refresh-temp"]).msg :
        c \in {d \in state_store \ pre.state_store :
                  "refresh-temp" \in DOMAIN from_tree(d).patches}}

\* C15: refresh resolves its target before it changes anything: without -p
\* the target is the last applied patch and refresh fails with
\* NoAppliedPatches when nothing is applied; with -p NAME it fails when the
\* stack has no patch NAME; both failures leave the repository as it was
C15_TargetResolvedBeforeMutation ==
    RefreshOnStack =>
        LET before == StateOf(pre, CurrentBranch(pre))
        IN  /\ (arg.patch = None /\ before.applied = <<>>) =>
                  result = "NoAppliedPatches" /\ Repo = pre
            /\ (arg.patch = None /\ before.applied # <<>>) =>
                  TempMessages \subseteq {"Refresh of " \o Last(before.applied)}
            /\ (arg.patch # None /\ arg.patch[1] \notin all_patches(before)) =>
                  result # "Ok" /\ Repo = pre

\* refresh has a patch to refresh
TargetResolves ==
    LET before == StateOf(pre, CurrentBranch(pre))
    IN  IF arg.patch = None THEN before.applied # <<>>
        ELSE arg.patch[1] \in DOMAIN before.patches

\* both the index and the worktree have changes
BothDirty(R) == index_status(R) # {} /\ workdir_status(R) # {}

\* C16: a refresh without --index and without --force fails with the "index
\* is dirty" error exactly when both the index and the worktree have changes,
\* and then leaves the repository as it was; with --force that check does
\* not fail
C16_IndexDirtyExactlyWhenBothDirty ==
    (/\ RefreshOnStack
     /\ TargetResolves
     /\ ~arg.index
     /\ pre.conflicts = {}) =>
        /\ ~arg.force => (result = "IndexDirty" <=> BothDirty(pre))
        /\ result = "IndexDirty" => Repo = pre
        /\ arg.force => result # "IndexDirty"

\* the patch refresh was asked to refresh
Target ==
    IF arg.patch = None THEN Last(StateOf(pre, CurrentBranch(pre)).applied)
    ELSE arg.patch[1]

\* the changed paths left after the pathspecs and --update have been applied
FinalRefreshPaths ==
    LET changed == status_paths(pre)
        listed == IF arg.pathspecs = None THEN changed
                  ELSE changed \cap arg.pathspecs[1]
        commit_id == StateOf(pre, CurrentBranch(pre)).patches[Target]
    IN  IF arg.update
        THEN {p \in listed : tree_id(commit_id)[p] # tree_id(parent(commit_id))[p]}
        ELSE listed

\* C17: a refresh that is not --index fails with OutstandingConflicts if and
\* only if a conflict entry of the index is on one of the final refresh
\* paths; conflicts elsewhere do not block it, and the failure comes before
\* anything is modified
C17_ConflictsBlockExactlyRefreshPaths ==
    (RefreshOnStack /\ TargetResolves /\ ~arg.index) =>
        /\ result = "OutstandingConflicts"
              <=> pre.conflicts \cap FinalRefreshPaths # {}
        /\ result = "OutstandingConflicts" => Repo = pre

\* C18: a refresh when neither the index nor the worktree has a change is
\* a no-op: the stack snapshot is what it was and the metadata reference
\* points at the same stack-state commit
C18_RefreshWithoutChangesIsNoOp ==
    (/\ RefreshOnStack
     /\ index_status(pre) = {}
     /\ workdir_status(pre) = {}) =>
        /\ StateOf(Repo, CurrentBranch(pre)) = StateOf(pre, CurrentBranch(pre))
        /\ MetadataRef(Repo, CurrentBranch(pre)) = MetadataRef(pre, CurrentBranch(pre))
        /\ state_store = pre.state_store

\* the changes a refresh is to take: from the index under --index, else the
\* worktree's content of the tracked files among the final refresh paths
RefreshedChanges ==
    LET tip == tree_id(BranchTip(pre, CurrentBranch(pre)))
    IN  IF arg.index
        THEN {<<p, pre.index[p]>> : p \in {q \in Paths : pre.index[q] # tip[q]}}
        ELSE {<<p, pre.worktree[p]>> :
                 p \in {q \in FinalRefreshPaths :
                           pre.index[q] # 0 /\ pre.worktree[q] # tip[q]}}

\* C19: after a successful refresh of an applied patch, applied holds the
\* names it held in the same order, unapplied and hidden are unchanged, the
\* temp patch is gone, the target's commit has the refreshed changes in its
\* tree, and the branch tip is the commit of the top applied patch
C19_RefreshOfAppliedKeepsStack ==
    (/\ RefreshOnStack
     /\ result = "Ok"
     /\ TargetResolves
     /\ Target \in Range(StateOf(pre, CurrentBranch(pre)).applied)) =>
        LET before == StateOf(pre, CurrentBranch(pre))
            after == StateOf(Repo, CurrentBranch(pre))
        IN  /\ after.applied = before.applied
            /\ after.unapplied = before.unapplied
            /\ after.hidden = before.hidden
            /\ DOMAIN after.patches = DOMAIN before.patches
            /\ \A change \in RefreshedChanges :
                  tree_id(after.patches[Target])[change[1]] = change[2]
            /\ BranchTip(Repo, CurrentBranch(pre))
                  = after.patches[Last(after.applied)]

\* a change in the worktree was taken into a patch below the top, and the
\* patches above it are applied again
C19_Witness ==
    /\ RefreshOnStack
    /\ result = "Ok"
    /\ arg.patch = Some("a")
    /\ StateOf(pre, CurrentBranch(pre)).applied = <<"a", "b">>
    /\ StateOf(Repo, CurrentBranch(pre)).applied = <<"a", "b">>
    /\ RefreshedChanges # {}
    /\ workdir_status(pre) # {}
    /\ StateOf(Repo, CurrentBranch(pre)).patches["a"]
          # StateOf(pre, CurrentBranch(pre)).patches["a"]

\* the tree refresh assembles for the temp patch
RefreshTree ==
    assemble_refresh_tree(pre, from_branch(pre, None).stack, arg,
                          IF arg.update THEN Some(Target) ELSE None)

\* the paths on which the change conflicts when it is moved onto the target
ConflictsOnTarget ==
    merge_conflicts(tree_id(BranchTip(pre, CurrentBranch(pre))),
                    tree_id(StateOf(pre, CurrentBranch(pre)).patches[Target]),
                    RefreshTree.tree)

\* C20: with applied [a, b, c], `refresh -p b` of a change that conflicts
\* when moved onto b ends with c unapplied and the temp patch still in the
\* stack, and reports that the change did not apply; when the change does
\* not conflict, b's commit has it and c is applied again above b
C20_RefreshBelowTopConflictOrAbsorb ==
    (/\ RefreshOnStack
     /\ StateOf(pre, CurrentBranch(pre)).applied = <<"a", "b", "c">>
     /\ arg.patch = Some("b")
     /\ RefreshTree.err = "Ok") =>
        LET after == StateOf(Repo, CurrentBranch(pre))
        IN  IF ConflictsOnTarget # {}
            THEN /\ "c" \in Range(after.unapplied)
                 /\ "c" \notin Range(after.applied)
                 /\ "refresh-temp" \in all_patches(after)
                 /\ ~out.absorb_success
            ELSE /\ result = "Ok"
                 /\ after.applied = <<"a", "b", "c">>
                 /\ "refresh-temp" \notin all_patches(after)
                 /\ \A change \in RefreshedChanges :
                       tree_id(after.patches["b"])[change[1]] = change[2]

\* the refresh target is an unapplied patch and the refresh tree is assembled
RefreshOfUnapplied ==
    /\ RefreshOnStack
    /\ TargetResolves
    /\ Target \in Range(StateOf(pre, CurrentBranch(pre)).unapplied)
    /\ RefreshTree.err = "Ok"

\* C21: a refresh of an unapplied patch ends with applied and the branch tip
\* as they were; when the change merges into the target's tree the target
\* has a new commit holding it, the temp patch is gone and unapplied is as it
\* was; when it conflicts the target's commit is as it was, the temp patch
\* is still in the stack, and the command returns success reporting that the
\* change did not apply
C21_RefreshOfUnappliedPopsTemp ==
    RefreshOfUnapplied =>
        LET before == StateOf(pre, CurrentBranch(pre))
            after == StateOf(Repo, CurrentBranch(pre))
        IN  /\ after.applied = before.applied
            /\ BranchTip(Repo, CurrentBranch(pre)) = BranchTip(pre, CurrentBranch(pre))
            /\ IF ConflictsOnTarget = {}
               THEN /\ result = "Ok"
                    /\ out.absorb_success
                    /\ after.unapplied = before.unapplied
                    /\ "refresh-temp" \notin all_patches(after)
                    /\ \A change \in RefreshedChanges :
                          tree_id(after.patches[Target])[change[1]] = change[2]
               ELSE /\ result = "Ok"
                    /\ ~out.absorb_success
                    /\ after.patches[Target] = before.patches[Target]
                    /\ "refresh-temp" \in all_patches(after)

\* the stack-state commits from the one the metadata reference of the
\* current branch pointed at before the command to the one it points at now
NewStates ==
    LET old == MetadataRef(pre, CurrentBranch(pre))
        new == MetadataRef(Repo, CurrentBranch(pre))
    IN  IF Len(new) >= Len(old) /\ SubSeq(new, 1, Len(old)) = old
        THEN [n \in 1..(Len(new) - Len(old)) |-> SubSeq(new, 1, Len(old) + n)]
        ELSE <<>>

IndexWithPathLimit ==
    arg.index
        /\ (arg.pathspecs # None \/ arg.update \/ arg.submodules \/ arg.force)

\* the trees of the temp commits in the stack states the command wrote
TempTrees ==
    {tree_id(from_tree(c).patches["refresh-temp"]) :
        c \in {d \in state_store \ pre.state_store :
                  "refresh-temp" \in DOMAIN from_tree(d).patches}}

\* C23: refresh with --index never runs with path limiting: --index together
\* with paths, --update, --submodules or --force is rejected as a usage
\* error with the repository untouched, the assertion of
\* assemble_refresh_tree never fails, and a refresh --index that writes its
\* temp patch takes the index as it is, no path of the worktree added
C23_IndexNeverPathLimited ==
    op = "refresh" =>
        /\ IndexWithPathLimit => result = "Usage" /\ Repo = pre
        /\ result # "PanicPathLimiting"
        /\ (arg.index /\ result # "Usage") =>
              /\ arg.pathspecs = None /\ ~arg.update
              /\ TempTrees \subseteq {pre.index}

\* a refresh --index took the staged change and left the worktree's unstaged
\* change out of the temp patch
C23_Witness ==
    /\ op = "refresh"
    /\ arg.index
    /\ result = "Ok"
    /\ index_status(pre) # {}
    /\ pre.worktree # pre.index
    /\ TempTrees = {pre.index}

\* invocation i has called advance_state and the call has returned
Called(i) == procs[i].pc \in {"swapped", "done"}

\* the call returned Ok: the metadata reference was moved
Advanced(i) ==
    procs[i].pc = "swapped" \/ (procs[i].pc = "done" /\ procs[i].err # "Git")

\* C24: when two invocations have loaded the same stack-state commit S and
\* both have called advance_state with prev_state = S, at most one of the
\* calls succeeded; the metadata reference is at the successful call's state
\* commit, whose prev is S, and the other call returned an error
C24_AtMostOneAdvanceFromSameState ==
    \A i, j \in Invocations :
        (/\ i # j
         /\ Called(i)
         /\ Called(j)
         /\ procs[i].prev_state = procs[j].prev_state) =>
            /\ ~(Advanced(i) /\ Advanced(j))
            /\ Advanced(i) =>
                  /\ MetadataRef(Repo, procs[i].stack.branch_name) = procs[i].oid
                  /\ prev_id(from_tree(procs[i].oid)) = procs[i].prev_state
                  /\ procs[j].err = "Git"

\* both invocations loaded the same state and staged different changes; the
\* first advanced the stack and the second was refused
C24_Witness ==
    /\ procs[1].pc = "done"
    /\ procs[2].pc = "done"
    /\ procs[1].prev_state = procs[2].prev_state
    /\ procs[1].oid # procs[2].oid
    /\ procs[1].err = "Ok"
    /\ procs[2].err = "Git"
    /\ refs[state_refname_from_branch_name("master")] = procs[1].oid
    /\ procs[2].oid \in state_store

\* C25: one state advance goes in a fixed order: the state commit is in
\* the object store when the metadata reference is moved to it, and the
\* branch reference moves after the metadata reference; an invocation that
\* loads the stack between the two reference updates sees a recorded head
\* that is not the branch tip and gets StackTopHeadMismatch from
\* check_head_top_mismatch
C25_ReaderBetweenUpdatesSeesMismatch ==
    /\ \A i \in Invocations :
          /\ Called(i) => procs[i].oid \in state_store
          /\ (procs[i].pc = "swapped" /\ procs[i].err = "Ok") =>
                procs[i].new_head # procs[i].stack.branch_head
    /\ (op = "check_head_top_mismatch" /\ arg.advancing # {}) =>
          /\ RecordedHead(pre, CurrentBranch(pre))
                # BranchTip(pre, CurrentBranch(pre))
          /\ result = "StackTopHeadMismatch"

\* the name of the temp patch, read from the first stack state the refresh
\* wrote
TempName == Last(from_tree(NewStates[1]).applied)

\* the names uniquify may give the temp patch when `refresh-temp` is taken
NumberedTempNames ==
    {"refresh-temp-" \o ToString(k) :
        k \in 1..(Cardinality(all_patches(StateOf(pre, CurrentBranch(pre)))) + 1)}

\* C26: the name refresh gives its temp patch is not the name of a patch in
\* applied, unapplied or hidden: it is `refresh-temp` when no patch has that
\* name and `refresh-temp-k` with k >= 1 otherwise, and it is never the
\* refresh target
C26_TempNameIsNew ==
    (RefreshOnStack /\ Len(NewStates) >= 1) =>
        LET existing == all_patches(StateOf(pre, CurrentBranch(pre)))
        IN  /\ TempName \notin existing
            /\ TempName # Target
            /\ "refresh-temp" \notin existing => TempName = "refresh-temp"
            /\ "refresh-temp" \in existing => TempName \in NumberedTempNames

\* with refresh-temp and refresh-temp-1 left in the stack the refresh named
\* its temp patch refresh-temp-2
C26_Witness ==
    /\ RefreshOnStack
    /\ result = "Ok"
    /\ {"refresh-temp", "refresh-temp-1"}
          \subseteq all_patches(StateOf(pre, CurrentBranch(pre)))
    /\ Len(NewStates) = 2
    /\ TempName = "refresh-temp-2"

\* C27: the assertions of refresh's second transaction never fail: in the
\* applied branch the pop of the patches above the target pops no other
\* patch, the last of those patches is the temp patch, and with the temp
\* patch deleted the target is the last applied patch; in the unapplied
\* branch the pop of the temp patch pops no other patch
C27_AbsorbAssertionsHold ==
    op = "refresh" => result # "PanicAbsorb"

\* a refresh of the bottom patch of three went through the three assertions
\* of the applied branch, two patches and the temp patch popped above the
\* target
C27_Witness ==
    /\ RefreshOnStack
    /\ result = "Ok"
    /\ Len(NewStates) = 2
    /\ arg.patch = Some("a")
    /\ StateOf(pre, CurrentBranch(pre)).applied = <<"a", "b", "c">>
    /\ StateOf(Repo, CurrentBranch(pre)).applied = <<"a", "b", "c">>

\* commit was run with arguments clap accepts and found a stack
CommitOnStack ==
    /\ op = "commit"
    /\ commit_args_ok(arg)
    /\ from_branch(pre, None).err = "Ok"

\* C28: `commit -n 0` returns success, `commit -n N` with N above the
\* number of applied patches returns an error, and with nothing applied
\* `commit` and `commit --all` fail with NoAppliedPatches; in all of these
\* the stack state, the metadata reference and the branch reference are as
\* they were
C28_CommitBoundaryCasesChangeNothing ==
    CommitOnStack =>
        LET applied == StateOf(pre, CurrentBranch(pre)).applied
        IN  /\ (arg.patchranges = None /\ arg.number = Some(0)) =>
                  result = "Ok" /\ Repo = pre
            /\ (arg.patchranges = None /\ arg.number # None
                  /\ arg.number[1] > Len(applied)) =>
                  result = "NotEnoughApplied" /\ Repo = pre
            /\ (NoSelection /\ applied = <<>>) =>
                  result = "NoAppliedPatches" /\ Repo = pre
            /\ (arg.patchranges = None /\ arg.number = None /\ arg.all
                  /\ applied = <<>>) =>
                  result = "NoAppliedPatches" /\ Repo = pre

\* `commit -n 0` on a stack with two applied patches returned success and
\* left both applied
C28_Witness ==
    /\ CommitOnStack
    /\ arg.number = Some(0)
    /\ result = "Ok"
    /\ StateOf(pre, CurrentBranch(pre)).applied = <<"a", "b">>
    /\ StateOf(Repo, CurrentBranch(pre)).applied = <<"a", "b">>
    /\ Repo = pre

====
